------------------------------ MODULE Spec2Model ------------------------------
(***************************************************************************)
(* Model of the PostgreSQL data-access facade (PostgreSqlDb) and of its    *)
(* SQL fragment builder (checkName, splitUp).                              *)
(*                                                                         *)
(* SQL text is modelled as a sequence of tokens, so that the identifiers   *)
(* and placeholders interpolated by the template literals stay visible.    *)
(* A name is a sequence of one-character strings.                          *)
(***************************************************************************)
EXTENDS Integers, Sequences, FiniteSets, TLC

VARIABLES
    fnOp,      \* pure-function harness: which function is applied
    fnIn,      \* its arguments
    fnOut,     \* its result
    fnDone,    \* whether it has been applied
    conn,      \* lifecycle of the pg Client held by the instance
    connects,  \* number of client.connect() calls
    calls,     \* the public calls made so far, in invocation order
    sent,      \* statements handed to client.query, in order
    queue,     \* statements awaiting the client's answer (FIFO)
    raised,    \* errors the client answered with
    console,   \* errors written by console.error
    overlapped,\* TRUE once a call was invoked while another was pending
    awaited    \* TRUE: the caller awaits each call before making the next

fnVars == <<fnOp, fnIn, fnOut, fnDone>>
dbVars == <<conn, connects, calls, sent, queue, raised, console, overlapped,
           awaited>>
vars == <<fnOp, fnIn, fnOut, fnDone, conn, connects, calls, sent, queue,
          raised, console, overlapped, awaited>>

-----------------------------------------------------------------------------
(* Bounds *)

MaxFill == 33     \* longest run of one character in a generated name
MaxFields == 2    \* entries of a generated field mapping
MaxOffset == 2    \* largest starting offset tried on splitUp
MaxCalls == 2     \* public calls made on the instance
MaxRows == 2      \* rows / ids of a batch

-----------------------------------------------------------------------------
(* Characters and the identifier check *)

Lower == {"a","b","c","d","e","f","g","h","i","j","k","l","m",
          "n","o","p","q","r","s","t","u","v","w","x","y","z"}
Upper == {"A","B","C","D","E","F","G","H","I","J","K","L","M",
          "N","O","P","Q","R","S","T","U","V","W","X","Y","Z"}
Digit == {"0","1","2","3","4","5","6","7","8","9"}

\* [a-zA-Z_]
FirstClass == Lower \cup Upper \cup {"_"}
\* [a-zA-Z_\d]
RestClass == Lower \cup Upper \cup {"_"} \cup Digit
\* the {0,30} quantifier
MaxTail == 30

RECURSIVE Greedy(_, _, _)
\* number of characters the greedy quantifier consumes from position i on
Greedy(s, i, n) ==
    IF n < MaxTail /\ i <= Len(s) /\ s[i] \in RestClass
    THEN Greedy(s, i + 1, n + 1)
    ELSE n

\* the quantifier admits one character more
RegexTestLong(name) ==
    /\ Len(name) >= 1
    /\ name[1] \in FirstClass
    /\ 2 + Greedy(name, 2, -1) = Len(name)

\* /^[a-zA-Z_][a-zA-Z_\d]{0,30}$/.test(name)
RegexTest(name) ==
    /\ Len(name) >= 1
    /\ name[1] \in FirstClass
    /\ 1 + Greedy(name, 2, 0) = Len(name)

NoErr == [kind |-> "none", name |-> <<>>, id |-> 0]
IllegalName(name) == [kind |-> "illegal name", name |-> name, id |-> 0]
DriverError(n) == [kind |-> "driver", name |-> <<>>, id |-> n]

checkName(name) ==
    IF RegexTest(name)
    THEN [ok |-> TRUE, val |-> name, err |-> NoErr]
    ELSE [ok |-> FALSE, val |-> <<>>, err |-> IllegalName(name)]

-----------------------------------------------------------------------------
(* Values and SQL tokens *)

Null == [k |-> "null", v |-> 0]
Num(n) == [k |-> "number", v |-> n]
DateVal(n) == [k |-> "date", v |-> n]
IsoText(n) == [k |-> "isostring", v |-> n]

Kw(s) == [t |-> "kw", s |-> s, n |-> 0, name |-> <<>>]
\* `"${name}"`
Quoted(name) == [t |-> "quoted", s |-> "", n |-> 0, name |-> name]
\* a name spliced in without quotes
Raw(name) == [t |-> "raw", s |-> "", n |-> 0, name |-> name]
\* `$${k}`
Var(k) == [t |-> "var", s |-> "", n |-> k, name |-> <<>>]

RECURSIVE JoinWith(_, _)
\* Array.prototype.join on an array of fragments
JoinWith(frags, sep) ==
    IF Len(frags) = 0 THEN <<>>
    ELSE IF Len(frags) = 1 THEN frags[1]
    ELSE frags[1] \o <<sep>> \o JoinWith(Tail(frags), sep)

Singletons(toks) == [i \in 1..Len(toks) |-> <<toks[i]>>]

-----------------------------------------------------------------------------
(* splitUp *)

EmptyResult ==
    [ok |-> TRUE, err |-> NoErr, columns |-> <<>>, variables |-> <<>>,
     params |-> <<>>, assignments |-> <<>>, whereSection |-> <<>>]

\* the isWhere test is dropped: null is rendered as "is null" in every mode
splitUpStepAlwaysNull(result, entry, isWhere, offset) ==
    IF ~result.ok THEN result
    ELSE LET c == checkName(entry.k) IN
    IF ~c.ok THEN [result EXCEPT !.ok = FALSE, !.err = c.err]
    ELSE LET column == Quoted(c.val) IN
    IF entry.v = Null
    THEN [result EXCEPT !.assignments = Append(@, <<column, Kw("is null")>>)]
    ELSE LET variable == Var(offset + Len(result.variables) + 1) IN
         [result EXCEPT !.columns = Append(@, column),
                        !.variables = Append(@, variable),
                        !.params = Append(@, entry.v),
                        !.assignments = Append(@, <<column, Kw("="), variable>>)]

\* placeholders numbered by the number of assignments instead of variables
splitUpStepByAssignments(result, entry, isWhere, offset) ==
    IF ~result.ok THEN result
    ELSE LET c == checkName(entry.k) IN
    IF ~c.ok THEN [result EXCEPT !.ok = FALSE, !.err = c.err]
    ELSE LET column == Quoted(c.val) IN
    IF isWhere /\ entry.v = Null
    THEN [result EXCEPT !.assignments = Append(@, <<column, Kw("is null")>>)]
    ELSE LET variable == Var(offset + Len(result.assignments) + 1) IN
         [result EXCEPT !.columns = Append(@, column),
                        !.variables = Append(@, variable),
                        !.params = Append(@, entry.v),
                        !.assignments = Append(@, <<column, Kw("="), variable>>)]

\* the reduce callback; a throw of checkName ends the fold with the error
splitUpStep(result, entry, isWhere, offset) ==
    IF ~result.ok THEN result
    ELSE LET c == checkName(entry.k) IN
    IF ~c.ok THEN [result EXCEPT !.ok = FALSE, !.err = c.err]
    ELSE LET column == Quoted(c.val) IN
    IF isWhere /\ entry.v = Null
    THEN [result EXCEPT !.assignments = Append(@, <<column, Kw("is null")>>)]
    ELSE LET variable == Var(offset + Len(result.variables) + 1) IN
         [result EXCEPT !.columns = Append(@, column),
                        !.variables = Append(@, variable),
                        !.params = Append(@, entry.v),
                        !.assignments = Append(@, <<column, Kw("="), variable>>)]

RECURSIVE Reduce(_, _, _, _)
Reduce(fields, acc, isWhere, offset) ==
    IF Len(fields) = 0 THEN acc
    ELSE Reduce(Tail(fields), splitUpStep(acc, Head(fields), isWhere, offset),
                isWhere, offset)

splitUp(fields, isWhere, offset) ==
    LET result == Reduce(fields, EmptyResult, isWhere, offset) IN
    IF result.ok /\ isWhere
    THEN [result EXCEPT !.whereSection =
             IF Len(result.assignments) > 0
             THEN <<Kw("where")>> \o JoinWith(result.assignments, Kw("and"))
             ELSE <<>>]
    ELSE result

-----------------------------------------------------------------------------
(* Statement builders and the low-level query method *)

Throw(e) == [ok |-> FALSE, err |-> e, sql |-> <<>>, params |-> <<>>]
Stmt(sql, params) == [ok |-> TRUE, err |-> NoErr, sql |-> sql, params |-> params]

\* the params.map callback of query: a Date becomes its ISO string
serialize(param) ==
    IF param.k = "date" THEN IsoText(param.v) ELSE param

\* what query hands to client.query
query(sql, params) ==
    [sql |-> sql, params |-> [i \in 1..Len(params) |-> serialize(params[i])]]

create(table, fields) ==
    LET f == splitUp(fields, FALSE, 0) IN
    IF ~f.ok THEN Throw(f.err)
    ELSE LET t == checkName(table) IN
    IF ~t.ok THEN Throw(t.err)
    ELSE Stmt(<<Kw("insert into"), Quoted(t.val), Kw("(")>>
              \o JoinWith(Singletons(f.columns), Kw(","))
              \o <<Kw(")"), Kw("values"), Kw("(")>>
              \o JoinWith(Singletons(f.variables), Kw(","))
              \o <<Kw(")")>>,
              f.params)

upsert(table, fields, unique) ==
    LET f == splitUp(fields, FALSE, 0) IN
    IF ~f.ok THEN Throw(f.err)
    ELSE LET t == checkName(table) IN
    IF ~t.ok THEN Throw(t.err)
    ELSE Stmt(<<Kw("insert into"), Quoted(t.val), Kw("(")>>
              \o JoinWith(Singletons(f.columns), Kw(","))
              \o <<Kw(")"), Kw("values"), Kw("(")>>
              \o JoinWith(Singletons(f.variables), Kw(","))
              \o <<Kw(")"), Kw("on conflict"), Kw("(")>>
              \o JoinWith([i \in 1..Len(unique) |-> <<Raw(unique[i])>>], Kw(","))
              \o <<Kw(")"), Kw("do update set")>>
              \o JoinWith(f.assignments, Kw(",")),
              f.params)

\* the WHERE fragment is built with offset 0
updateNoOffset(table, fields, whereConditions) ==
    LET f == splitUp(fields, FALSE, 0) IN
    IF ~f.ok THEN Throw(f.err)
    ELSE LET w == splitUp(whereConditions, TRUE, 0) IN
    IF ~w.ok THEN Throw(w.err)
    ELSE LET t == checkName(table) IN
    IF ~t.ok THEN Throw(t.err)
    ELSE Stmt(<<Kw("update"), Quoted(t.val), Kw("set")>>
              \o JoinWith(f.assignments, Kw(","))
              \o w.whereSection,
              f.params \o w.params)

update(table, fields, whereConditions) ==
    LET f == splitUp(fields, FALSE, 0) IN
    IF ~f.ok THEN Throw(f.err)
    ELSE LET w == splitUp(whereConditions, TRUE, Len(f.params)) IN
    IF ~w.ok THEN Throw(w.err)
    ELSE LET t == checkName(table) IN
    IF ~t.ok THEN Throw(t.err)
    ELSE Stmt(<<Kw("update"), Quoted(t.val), Kw("set")>>
              \o JoinWith(f.assignments, Kw(","))
              \o w.whereSection,
              f.params \o w.params)

select(table, whereConditions) ==
    LET w == splitUp(whereConditions, TRUE, 0) IN
    IF ~w.ok THEN Throw(w.err)
    ELSE LET t == checkName(table) IN
    IF ~t.ok THEN Throw(t.err)
    ELSE Stmt(<<Kw("select * from"), Quoted(t.val)>> \o w.whereSection,
              w.params)

delete(table, whereConditions) ==
    LET w == splitUp(whereConditions, TRUE, 0) IN
    IF ~w.ok THEN Throw(w.err)
    ELSE LET t == checkName(table) IN
    IF ~t.ok THEN Throw(t.err)
    ELSE Stmt(<<Kw("delete from"), Quoted(t.val)>> \o w.whereSection,
              w.params)

-----------------------------------------------------------------------------
(* Inputs of the pure functions *)

SampleChars == {"a", "Z", "_", "7", "-", "\"", " ", "\n"}
FillChars == {"a", "_", "0"}

Fill(c, k) == [i \in 1..k |-> c]
SeqsUpTo(S, n) == UNION {[1..k -> S] : k \in 0..n}

NameInputs ==
    {h \o Fill(c, k) \o t :
        h \in SeqsUpTo(SampleChars, 1), c \in FillChars, k \in 0..MaxFill,
        t \in SeqsUpTo(SampleChars, 2)}

nA == <<"a">>
nB == <<"b", "_", "2">>
nId == <<"i", "d">>
nBad == <<"x", "\"", ";">>
tUsers == <<"u", "s", "e", "r", "s">>
tBad == <<"2", "u">>

Keys == {nA, nB, nBad}
Values == {Null, Num(7), DateVal(3)}
Tables == {tUsers, tBad}

\* ordered mappings: sequences of entries with pairwise distinct keys
Mappings(n) ==
    {m \in SeqsUpTo([k : Keys, v : Values], n) :
        \A i, j \in 1..Len(m) : i # j => m[i].k # m[j].k}

NoInput == [name |-> <<>>, table |-> <<>>, fields |-> <<>>, where |-> <<>>,
            isWhere |-> FALSE, offset |-> 0]
NoOutput == [ok |-> FALSE]

InitDb ==
    /\ conn = "disconnected"
    /\ connects = 0
    /\ calls = <<>>
    /\ sent = <<>>
    /\ queue = <<>>
    /\ raised = <<>>
    /\ console = <<>>
    /\ overlapped = FALSE
    /\ awaited = TRUE

InitFn ==
    /\ fnDone = FALSE
    /\ fnOut = NoOutput
    /\ \/ /\ fnOp = "checkName"
          /\ \E name \in NameInputs : fnIn = [NoInput EXCEPT !.name = name]
       \/ /\ fnOp = "splitUp"
          /\ \E fields \in Mappings(MaxFields), isWhere \in BOOLEAN,
                offset \in 0..MaxOffset :
                fnIn = [NoInput EXCEPT !.fields = fields, !.isWhere = isWhere,
                                       !.offset = offset]
       \/ /\ fnOp = "update"
          /\ \E table \in Tables, fields \in Mappings(MaxFields),
                where \in Mappings(MaxFields) :
                fnIn = [NoInput EXCEPT !.table = table, !.fields = fields,
                                       !.where = where]
    /\ InitDb

ApplyCheckName ==
    /\ fnOp = "checkName" /\ ~fnDone
    /\ fnOut' = checkName(fnIn.name)
    /\ fnDone' = TRUE
    /\ UNCHANGED <<fnOp, fnIn, dbVars>>

ApplySplitUp ==
    /\ fnOp = "splitUp" /\ ~fnDone
    /\ fnOut' = splitUp(fnIn.fields, fnIn.isWhere, fnIn.offset)
    /\ fnDone' = TRUE
    /\ UNCHANGED <<fnOp, fnIn, dbVars>>

\* update builds the statement and query2/query pass it to the client
ApplyUpdate ==
    /\ fnOp = "update" /\ ~fnDone
    /\ LET u == update(fnIn.table, fnIn.fields, fnIn.where) IN
       fnOut' = IF u.ok
                THEN [ok |-> TRUE, err |-> NoErr, passed |-> query(u.sql, u.params)]
                ELSE [ok |-> FALSE, err |-> u.err, passed |-> query(<<>>, <<>>)]
    /\ fnDone' = TRUE
    /\ UNCHANGED <<fnOp, fnIn, dbVars>>

NextFn == ApplyCheckName \/ ApplySplitUp \/ ApplyUpdate

SpecFn == InitFn /\ [][NextFn]_vars

-----------------------------------------------------------------------------
(* The facade: connection lifecycle, public calls, answers of the client *)

fOne == <<[k |-> nA, v |-> Num(7)]>>
fTwo == <<[k |-> nA, v |-> Null], [k |-> nB, v |-> DateVal(3)]>>
fBad == <<[k |-> nBad, v |-> Num(7)]>>

WhereSamples == {fTwo, fBad}
UniqueSamples == {<<nId>>, <<nBad>>}
\* batches of MaxRows rows: all rows legal, or the last row with an illegal column
RowN(j) == <<[k |-> nA, v |-> Num(j)]>>
GoodRows == [j \in 1..MaxRows |-> RowN(j)]
RowLists == {GoodRows, [GoodRows EXCEPT ![MaxRows] = fBad]}

NewCall(op) ==
    [op |-> op, table |-> <<>>, fields |-> <<>>, where |-> <<>>,
     unique |-> <<>>, rows |-> <<>>, ids |-> <<>>,
     pc |-> "done", i |-> 0, result |-> "pending", err |-> NoErr]

\* the instance is handed out before connect has completed
InstanceReturnedEarly == conn \in {"connecting", "connected", "ended"}

\* PostgreSqlDb.create resolves with the instance only after connect resolved
InstanceReturned == conn \in {"connected", "ended"}

\* new PostgreSqlDb(config) followed by instance.connect()
Connect ==
    /\ conn = "disconnected"
    /\ conn' = "connecting"
    /\ connects' = connects + 1
    /\ UNCHANGED <<fnVars, calls, sent, queue, raised, console, overlapped, awaited>>

\* client.connect() resolves, or rejects and no instance is ever returned
ConnectDone ==
    /\ conn = "connecting"
    /\ \E ok \in BOOLEAN : conn' = IF ok THEN "connected" ELSE "failed"
    /\ UNCHANGED <<fnVars, connects, calls, sent, queue, raised, console,
                   overlapped, awaited>>

Pending(k) == calls[k].result = "pending"

\* client.query(sql, newParams) is called for call c
Hand(c, st) ==
    LET q == query(st.sql, st.params) IN
    /\ sent' = Append(sent, [call |-> c, sql |-> q.sql, params |-> q.params,
                             conn |-> conn])
    /\ queue' = Append(queue, [call |-> c, idx |-> Len(sent) + 1])

\* whether the caller may make its next call now
MayCall ==
    /\ InstanceReturned
    /\ Len(calls) < MaxCalls
    /\ awaited => \A k \in 1..Len(calls) : ~Pending(k)

\* a public method is called: it runs up to its first await
Invoke(task, built, pc) ==
    /\ MayCall
    /\ overlapped' = (overlapped \/ \E k \in 1..Len(calls) : Pending(k))
    /\ IF built.ok
       THEN /\ calls' = Append(calls, [task EXCEPT !.pc = pc])
            /\ Hand(Len(calls) + 1, built)
       ELSE /\ calls' = Append(calls, [task EXCEPT !.result = "rejected",
                                                   !.err = built.err])
            /\ UNCHANGED <<sent, queue>>
    /\ UNCHANGED <<fnVars, conn, connects, raised, console, awaited>>

CallCreate ==
    \E table \in Tables :
        Invoke([NewCall("create") EXCEPT !.table = table, !.fields = fOne],
               create(table, fOne), "query2")

CallUpsert ==
    \E unique \in UniqueSamples :
        Invoke([NewCall("upsert") EXCEPT !.table = tUsers, !.fields = fOne,
                                         !.unique = unique],
               upsert(tUsers, fOne, unique), "query2")

CallUpdate ==
    \E table \in Tables :
        Invoke([NewCall("update") EXCEPT !.table = table, !.fields = fOne,
                                         !.where = fTwo],
               update(table, fOne, fTwo), "query2")

CallSelect ==
    \E where \in WhereSamples :
        Invoke([NewCall("select") EXCEPT !.table = tUsers, !.where = where],
               select(tUsers, where), "query2")

CallDelete ==
    \E table \in Tables :
        Invoke([NewCall("delete") EXCEPT !.table = table],
               delete(table, <<>>), "query2")

\* getAll(tableName, where = {}) returns this.select(tableName, where)
CallGetAll ==
    \E table \in Tables :
        Invoke([NewCall("getAll") EXCEPT !.table = table],
               select(table, <<>>), "query2")

CallGetItemById ==
    \E table \in Tables :
        Invoke([NewCall("getItemById") EXCEPT !.table = table,
                                              !.ids = <<Num(7)>>],
               select(table, <<[k |-> nId, v |-> Num(7)]>>), "query2")

CallUpdateById ==
    \E table \in Tables :
        Invoke([NewCall("updateById") EXCEPT !.table = table,
                                             !.ids = <<Num(7)>>,
                                             !.fields = fOne],
               update(table, fOne, <<[k |-> nId, v |-> Num(7)]>>), "query2")

\* writeRows runs up to its first await: this.query("begin")
WriteRows(table, rows, unique) ==
    Invoke([NewCall("writeRows") EXCEPT !.table = table, !.rows = rows,
                                        !.unique = unique],
           Stmt(<<Kw("begin")>>, <<>>), "begin")

\* deleteRows runs up to its first await: this.query("begin")
DeleteRows(table, ids) ==
    Invoke([NewCall("deleteRows") EXCEPT !.table = table, !.ids = ids],
           Stmt(<<Kw("begin")>>, <<>>), "begin")

CallWriteRows ==
    \E table \in Tables, rows \in RowLists :
        /\ table = tUsers \/ rows = GoodRows
        /\ WriteRows(table, rows, <<nId>>)

CallDeleteRows ==
    \E table \in Tables : DeleteRows(table, [i \in 1..MaxRows |-> Num(i)])

\* a direct call of the public query method
CallQuery ==
    Invoke(NewCall("query"), Stmt(<<Kw("select 1")>>, <<DateVal(3)>>), "query")

\* end() passes to client.end()
CallEnd ==
    /\ MayCall
    /\ calls' = Append(calls, [NewCall("end") EXCEPT !.result = "resolved"])
    /\ conn' = "ended"
    /\ overlapped' = (overlapped \/ \E k \in 1..Len(calls) : Pending(k))
    /\ UNCHANGED <<fnVars, connects, sent, queue, raised, console, awaited>>

\* the catch block of query2 does not log
query2CatchSilent(e) == [log |-> <<>>, thrown |-> e]

\* the catch block of query2: console.error(e); throw e
query2Catch(e) == [log |-> <<e>>, thrown |-> e]

IsBatch(t) == t.op \in {"writeRows", "deleteRows"}
BatchSize(t) == IF t.op = "writeRows" THEN Len(t.rows) ELSE Len(t.ids)

\* the statement of the i-th iteration of the batch loop
RowStmt(t, i) ==
    IF t.op = "writeRows"
    THEN upsert(t.table, t.rows[i], t.unique)
    ELSE delete(t.table, <<[k |-> nId, v |-> t.ids[i]]>>)

\* a failed row statement is skipped and the loop goes on
BatchStepSwallow(pc, i, n, ok) ==
    IF ~ok /\ pc # "row" THEN [pc |-> "failed", i |-> i]
    ELSE IF pc = "begin" THEN [pc |-> "set", i |-> 0]
    ELSE IF pc \in {"set", "row"}
         THEN IF i < n THEN [pc |-> "row", i |-> i + 1]
              ELSE [pc |-> "commit", i |-> i]
    ELSE [pc |-> "done", i |-> i]

\* commit is issued before the loop
BatchStepCommitFirst(pc, i, n, ok) ==
    IF ~ok THEN [pc |-> "failed", i |-> i]
    ELSE IF pc = "begin" THEN [pc |-> "set", i |-> 0]
    ELSE IF pc = "set" THEN [pc |-> "commit", i |-> 0]
    ELSE IF i < n THEN [pc |-> "row", i |-> i + 1]
    ELSE [pc |-> "done", i |-> i]

\* where writeRows / deleteRows continue after the awaited statement at pc
\* (row i of n) was answered
BatchStep(pc, i, n, ok) ==
    IF ~ok THEN [pc |-> "failed", i |-> i]
    ELSE IF pc = "begin" THEN [pc |-> "set", i |-> 0]
    ELSE IF pc \in {"set", "row"}
         THEN IF i < n THEN [pc |-> "row", i |-> i + 1]
              ELSE [pc |-> "commit", i |-> i]
    ELSE [pc |-> "done", i |-> i]

\* the client answers the oldest statement in flight
Answer(c, idx, ok) ==
    /\ queue # <<>>
    /\ Head(queue) = [call |-> c, idx |-> idx]
    /\ raised' = IF ok THEN raised
                 ELSE Append(raised, [call |-> c, idx |-> idx,
                                      err |-> DriverError(idx)])

\* query2 resumes for create, upsert, update, select, delete and wrappers
RespondQuery2 ==
    \E c \in 1..Len(calls), idx \in 1..Len(sent), ok \in BOOLEAN :
        /\ Answer(c, idx, ok)
        /\ ~IsBatch(calls[c]) /\ calls[c].pc = "query2"
        /\ queue' = Tail(queue)
        /\ IF ok
           THEN /\ calls' = [calls EXCEPT ![c].result = "resolved",
                                          ![c].pc = "done"]
                /\ UNCHANGED console
           ELSE LET h == query2Catch(DriverError(idx)) IN
                /\ calls' = [calls EXCEPT ![c].result = "rejected",
                                          ![c].err = h.thrown,
                                          ![c].pc = "done"]
                /\ console' = console \o h.log
        /\ UNCHANGED <<fnVars, conn, connects, sent, overlapped, awaited>>

\* a direct query call resumes: there is no catch on this path
RespondQuery ==
    \E c \in 1..Len(calls), idx \in 1..Len(sent), ok \in BOOLEAN :
        /\ Answer(c, idx, ok)
        /\ calls[c].pc = "query"
        /\ queue' = Tail(queue)
        /\ calls' = IF ok
                    THEN [calls EXCEPT ![c].result = "resolved",
                                       ![c].pc = "done"]
                    ELSE [calls EXCEPT ![c].result = "rejected",
                                       ![c].err = DriverError(idx),
                                       ![c].pc = "done"]
        /\ UNCHANGED <<fnVars, conn, connects, sent, console, overlapped, awaited>>

\* writeRows / deleteRows resume after one of their awaits
RespondBatch ==
    \E c \in 1..Len(calls), idx \in 1..Len(sent), ok \in BOOLEAN :
        LET t == calls[c]
            thrown == IF t.pc = "row" THEN query2Catch(DriverError(idx)).thrown
                      ELSE DriverError(idx)
            log == IF t.pc = "row" THEN query2Catch(DriverError(idx)).log
                   ELSE <<>>
            nx == BatchStep(t.pc, t.i, BatchSize(t), ok)
        IN
        /\ Answer(c, idx, ok)
        /\ IsBatch(t) /\ t.pc \in {"begin", "set", "row", "commit"}
        /\ console' = IF ok THEN console ELSE console \o log
        /\ IF nx.pc = "failed" \/ (~ok /\ nx.pc = "done")
           THEN /\ calls' = [calls EXCEPT ![c].result = "rejected",
                                          ![c].err = thrown, ![c].pc = "done"]
                /\ queue' = Tail(queue)
                /\ UNCHANGED sent
           ELSE IF nx.pc = "done"
           THEN /\ calls' = [calls EXCEPT ![c].result = "resolved",
                                          ![c].pc = "done"]
                /\ queue' = Tail(queue)
                /\ UNCHANGED sent
           ELSE LET st == IF nx.pc = "set"
                          THEN Stmt(<<Kw("SET CONSTRAINTS fk_parent DEFERRED")>>,
                                    <<>>)
                          ELSE IF nx.pc = "commit"
                          THEN Stmt(<<Kw("commit")>>, <<>>)
                          ELSE RowStmt(t, nx.i)
                IN IF st.ok
                   THEN /\ calls' = [calls EXCEPT ![c].pc = nx.pc,
                                                  ![c].i = nx.i]
                        /\ LET q == query(st.sql, st.params) IN
                           /\ sent' = Append(sent,
                                  [call |-> c, sql |-> q.sql,
                                   params |-> q.params, conn |-> conn])
                           /\ queue' = Append(Tail(queue),
                                  [call |-> c, idx |-> Len(sent) + 1])
                   ELSE /\ calls' = [calls EXCEPT ![c].result = "rejected",
                                                  ![c].err = st.err,
                                                  ![c].pc = "done",
                                                  ![c].i = nx.i]
                        /\ queue' = Tail(queue)
                        /\ UNCHANGED sent
        /\ UNCHANGED <<fnVars, conn, connects, overlapped, awaited>>

InitNoFn ==
    fnOp = "none" /\ fnIn = NoInput /\ fnOut = NoOutput /\ fnDone = FALSE

\* the caller awaits every call before it makes the next one
Init ==
    /\ InitDb
    /\ InitNoFn

\* calls on the instance may overlap
InitConc ==
    /\ conn = "disconnected"
    /\ connects = 0
    /\ calls = <<>>
    /\ sent = <<>>
    /\ queue = <<>>
    /\ raised = <<>>
    /\ console = <<>>
    /\ overlapped = FALSE
    /\ awaited = FALSE
    /\ InitNoFn

Next ==
    \/ Connect
    \/ ConnectDone
    \/ CallCreate
    \/ CallUpsert
    \/ CallUpdate
    \/ CallSelect
    \/ CallDelete
    \/ CallGetAll
    \/ CallGetItemById
    \/ CallUpdateById
    \/ CallWriteRows
    \/ CallDeleteRows
    \/ CallQuery
    \/ CallEnd
    \/ RespondQuery2
    \/ RespondQuery
    \/ RespondBatch

Spec == Init /\ [][Next]_vars

\* overlapping batches and direct queries on one instance, legal names only
NextConc ==
    \/ Connect
    \/ ConnectDone
    \/ WriteRows(tUsers, GoodRows, <<nId>>)
    \/ DeleteRows(tUsers, [i \in 1..MaxRows |-> Num(i)])
    \/ CallQuery
    \/ RespondQuery
    \/ RespondBatch

SpecConc == InitConc /\ [][NextConc]_vars

-----------------------------------------------------------------------------
(* Properties of the pure functions, checked under SpecFn *)

\* C9: checkName returns its argument unchanged for every string of length
\* 1..31 that starts with a letter or an underscore and continues with
\* letters, digits or underscores, and fails with the illegal-name error
\* carrying the argument for every other string.
CheckNameContract ==
    (fnOp = "checkName" /\ fnDone) =>
        LET name == fnIn.name
            legal == /\ Len(name) >= 1 /\ Len(name) <= 31
                     /\ name[1] \in Lower \cup Upper \cup {"_"}
                     /\ \A i \in 2..Len(name) :
                            name[i] \in Lower \cup Upper \cup Digit \cup {"_"}
        IN IF legal
           THEN fnOut.ok /\ fnOut.val = name
           ELSE ~fnOut.ok /\ fnOut.err.kind = "illegal name"
                /\ fnOut.err.name = name

\* a 31-character identifier has been accepted
CheckNameWitness ==
    /\ fnOp = "checkName" /\ fnDone
    /\ Len(fnIn.name) = 31 /\ fnOut.ok

\* C8: in non-WHERE mode a mapping of N entries (null values included) with
\* offset O gives N columns, the placeholders $(O+1)..$(O+N) in iteration
\* order, the values as parameter list and an empty WHERE text.
SplitUpPlainContract ==
    (/\ fnOp = "splitUp" /\ fnDone /\ ~fnIn.isWhere
     /\ \A i \in 1..Len(fnIn.fields) : RegexTest(fnIn.fields[i].k)) =>
        LET f == fnIn.fields
            N == Len(f)
            O == fnIn.offset
        IN /\ fnOut.ok
           /\ fnOut.columns = [i \in 1..N |-> Quoted(f[i].k)]
           /\ fnOut.variables = [i \in 1..N |-> Var(O + i)]
           /\ fnOut.params = [i \in 1..N |-> f[i].v]
           /\ fnOut.whereSection = <<>>
           /\ Len(fnOut.columns) = N /\ Len(fnOut.variables) = N

\* a two-entry mapping holding a null was split with a non-zero offset
SplitUpPlainWitness ==
    /\ fnOp = "splitUp" /\ fnDone /\ ~fnIn.isWhere /\ fnOut.ok
    /\ fnIn.offset > 0 /\ Len(fnIn.fields) = 2
    /\ fnIn.fields[1].v = Null /\ fnIn.fields[2].v # Null

\* C7: in WHERE mode a null entry becomes '"column" is null' and adds no
\* placeholder and no parameter, every other entry becomes '"column" = $k'
\* with one parameter and k contiguous from offset+1 over the non-null
\* entries; the WHERE text is the assignments joined with "and", and it is
\* empty exactly when the mapping is empty.
SplitUpWhereContract ==
    (/\ fnOp = "splitUp" /\ fnDone /\ fnIn.isWhere
     /\ \A i \in 1..Len(fnIn.fields) : RegexTest(fnIn.fields[i].k)) =>
        LET f == fnIn.fields
            O == fnIn.offset
            nonNull == SelectSeq(f, LAMBDA e : e.v # Null)
            rank(i) == Len(SelectSeq(SubSeq(f, 1, i), LAMBDA e : e.v # Null))
            expected(i) ==
                IF f[i].v = Null
                THEN <<Quoted(f[i].k), Kw("is null")>>
                ELSE <<Quoted(f[i].k), Kw("="), Var(O + rank(i))>>
        IN /\ fnOut.ok
           /\ fnOut.assignments = [i \in 1..Len(f) |-> expected(i)]
           /\ fnOut.variables = [j \in 1..Len(nonNull) |-> Var(O + j)]
           /\ fnOut.params = [j \in 1..Len(nonNull) |-> nonNull[j].v]
           /\ (fnOut.whereSection = <<>>) <=> (Len(f) = 0)
           /\ Len(f) > 0 =>
                 fnOut.whereSection =
                     <<Kw("where")>> \o JoinWith(fnOut.assignments, Kw("and"))

\* a WHERE mapping with a null entry before a non-null one was split
SplitUpWhereWitness ==
    /\ fnOp = "splitUp" /\ fnDone /\ fnIn.isWhere /\ fnOut.ok
    /\ fnIn.offset > 0 /\ Len(fnIn.fields) = 2
    /\ fnIn.fields[1].v = Null /\ fnIn.fields[2].v # Null

\* C3: update numbers the SET placeholders $1..$N and the WHERE placeholders
\* $(N+1)..$(N+M), M the non-null WHERE entries, each index once, and passes
\* the SET values followed by the non-null WHERE values (a timestamp as its
\* ISO string), so that $k stands next to the column of the k-th parameter.
UpdatePlaceholders ==
    (/\ fnOp = "update" /\ fnDone
     /\ RegexTest(fnIn.table)
     /\ \A i \in 1..Len(fnIn.fields) : RegexTest(fnIn.fields[i].k)
     /\ \A i \in 1..Len(fnIn.where) : RegexTest(fnIn.where[i].k)) =>
        LET bound == fnIn.fields \o SelectSeq(fnIn.where, LAMBDA e : e.v # Null)
            sql == fnOut.passed.sql
            params == fnOut.passed.params
            IsVar(tok) == tok.t = "var"
        IN /\ fnOut.ok
           /\ SelectSeq(sql, IsVar) = [k \in 1..Len(bound) |-> Var(k)]
           /\ params = [k \in 1..Len(bound) |-> serialize(bound[k].v)]
           /\ \A p \in 1..Len(sql) :
                 IsVar(sql[p]) =>
                    /\ p > 2
                    /\ sql[p - 1] = Kw("=")
                    /\ sql[p - 2] = Quoted(bound[sql[p].n].k)

\* an update with two SET entries and a WHERE mapping whose null entry
\* precedes a non-null one was built
UpdateWitness ==
    /\ fnOp = "update" /\ fnDone /\ fnOut.ok
    /\ Len(fnIn.fields) = 2 /\ Len(fnIn.where) = 2
    /\ fnIn.where[1].v = Null /\ fnIn.where[2].v # Null

-----------------------------------------------------------------------------
(* What the client and the caller observed *)

\* the statements call c handed to the client, in order
SentBy(c) == SelectSeq(sent, LAMBDA e : e.call = c)

\* the positions in sent of the statements of call c
PositionsOf(c) == {i \in 1..Len(sent) : sent[i].call = c}

\* the errors with which the client answered call c
RaisedFor(c) == SelectSeq(raised, LAMBDA r : r.call = c)

\* how often console.error was called with e
TimesLogged(e) == Len(SelectSeq(console, LAMBDA x : x = e))

Begin == <<Kw("begin")>>
SetConstraints == <<Kw("SET CONSTRAINTS fk_parent DEFERRED")>>
Commit == <<Kw("commit")>>

\* statements issued with this.query directly, not through query2
IsDirect(e) ==
    \/ e.sql \in {Begin, SetConstraints, Commit}
    \/ calls[e.call].op = "query"

\* a table or column name among the arguments of call t fails the pattern
HasIllegalName(t) ==
    /\ t.op \notin {"query", "end"}
    /\ \/ ~RegexTest(t.table)
       \/ \E i \in 1..Len(t.fields) : ~RegexTest(t.fields[i].k)
       \/ \E i \in 1..Len(t.where) : ~RegexTest(t.where[i].k)
       \/ \E i \in 1..Len(t.unique) : ~RegexTest(t.unique[i])
       \/ \E r \in 1..Len(t.rows) :
             \E i \in 1..Len(t.rows[r]) : ~RegexTest(t.rows[r][i].k)

\* e is the statement of the j-th row of batch t
IsRowStmtOf(t, j, e) ==
    IF t.op = "writeRows"
    THEN /\ e.sql[1] = Kw("insert into")
         /\ e.params = [i \in 1..Len(t.rows[j]) |-> serialize(t.rows[j][i].v)]
    ELSE /\ e.sql[1] = Kw("delete from")
         /\ e.params = <<serialize(t.ids[j])>>

-----------------------------------------------------------------------------
(* Properties of the facade *)

\* C1: every table and column name interpolated into a statement handed to
\* the client, the conflict-target names of upsert included, has passed
\* checkName, and no value is interpolated into the SQL text.
IdentifiersChecked ==
    \A i \in 1..Len(sent) :
        \A p \in 1..Len(sent[i].sql) :
            LET tok == sent[i].sql[p] IN
            /\ tok.t \in {"kw", "quoted", "raw", "var"}
            /\ tok.t \in {"quoted", "raw"} => RegexTest(tok.name)

\* C2: a public operation called with a table or column name that fails the
\* identifier pattern is rejected with the illegal-name error and the client
\* has received no statement from that call.
IllegalBeforeAnySql ==
    \A c \in 1..Len(calls) :
        HasIllegalName(calls[c]) =>
            /\ SentBy(c) = <<>>
            /\ calls[c].result = "rejected"
            /\ calls[c].err.kind = "illegal name"

\* C4: when the client fails a statement of a writeRows / deleteRows batch,
\* the call is rejected with that error and the statements it handed over
\* are exactly begin, SET CONSTRAINTS fk_parent DEFERRED and the row
\* statements 1..k in input order, the failed one last: no further row, no
\* commit and no rollback follows.
BatchStopsAtFailure ==
    \A c \in 1..Len(calls) :
        IsBatch(calls[c]) =>
            LET t == calls[c]
                n == BatchSize(t)
                mine == SentBy(c)
                fails == RaisedFor(c)
            IN /\ Len(mine) <= n + 3
               /\ \A j \in 1..Len(mine) :
                     IF j = 1 THEN mine[j].sql = Begin
                     ELSE IF j = 2 THEN mine[j].sql = SetConstraints
                     ELSE IF j <= n + 2 THEN IsRowStmtOf(t, j - 2, mine[j])
                     ELSE mine[j].sql = Commit
               /\ Len(fails) <= 1
               /\ Len(fails) = 1 =>
                     /\ t.result = "rejected"
                     /\ t.err = fails[1].err
                     /\ \A i \in PositionsOf(c) : i <= fails[1].idx
                     /\ fails[1].idx \in PositionsOf(c)

\* the second row statement of a batch failed: four statements, no commit
BatchFailureWitness ==
    \E c \in 1..Len(calls) :
        /\ IsBatch(calls[c])
        /\ calls[c].result = "rejected" /\ calls[c].err.kind = "driver"
        /\ calls[c].i = 2 /\ BatchSize(calls[c]) >= 2
        /\ Len(SentBy(c)) = 4

\* C5 (as claimed): every error raised by the client, also for begin, SET
\* CONSTRAINTS, commit and direct query calls, is logged exactly once, reaches
\* the caller unchanged, and the failed statement is not handed over again.
EveryDriverErrorLoggedOnce ==
    \A i \in 1..Len(raised) :
        LET r == raised[i] IN
        /\ TimesLogged(r.err) = 1
        /\ calls[r.call].result = "rejected"
        /\ calls[r.call].err = r.err
        /\ \A j \in PositionsOf(r.call) : j <= r.idx

\* C5 (amended): an error raised by the client reaches the caller unchanged
\* and ends the call without a retry; it is logged exactly once when the
\* statement went through query2 (create, upsert, update, select, delete,
\* their wrappers and the row statements of a batch) and not at all when it
\* went through query directly (begin, SET CONSTRAINTS, commit, direct calls).
DriverErrorLoggedOnQuery2Path ==
    /\ \A i \in 1..Len(raised) :
          LET r == raised[i] IN
          /\ TimesLogged(r.err) = IF IsDirect(sent[r.idx]) THEN 0 ELSE 1
          /\ calls[r.call].result = "rejected"
          /\ calls[r.call].err = r.err
          /\ \A j \in PositionsOf(r.call) : j <= r.idx
    /\ \A k \in 1..Len(console) :
          \E i \in 1..Len(raised) : raised[i].err = console[k]

\* the client failed one statement issued through query2 and one issued
\* through query directly
DriverErrorWitness ==
    \E i, j \in 1..Len(raised) :
        /\ IsDirect(sent[raised[i].idx])
        /\ ~IsDirect(sent[raised[j].idx])

\* C10 (as claimed): connect is issued once and completes before any
\* statement, and after end() no statement is handed to the client.
LifecycleTerminal ==
    /\ connects <= 1
    /\ \A i \in 1..Len(sent) : sent[i].conn = "connected"

\* what holds of the connection in every state
LifecycleState ==
    /\ connects <= 1
    /\ conn \in {"connected", "ended"} => connects = 1
    /\ Len(calls) > 0 => connects = 1
    /\ \A i \in 1..Len(sent) : sent[i].conn \in {"connected", "ended"}

\* C10 (amended): connect is issued exactly once per instance and has
\* completed before any statement is handed to the client; once end() was
\* called the connection stays ended and connect is not issued again.  The
\* facade itself does not hold back statements after end().
LifecycleConnectOnce ==
    /\ []LifecycleState
    /\ [][conn = "ended" => (conn' = "ended" /\ connects' = connects)]_vars

\* end() was called and a later operation handed its statement to the client
LifecycleWitness ==
    /\ conn = "ended"
    /\ \E i \in 1..Len(sent) : sent[i].conn = "ended"

-----------------------------------------------------------------------------
(* Properties of overlapping batches, checked under SpecConc *)

\* the row statements and the commit of batch c come after its begin, and its
\* row statements come before its commit
Bracketed(c) ==
    LET mine == SentBy(c) IN
    /\ Len(mine) > 0 => mine[1].sql = Begin
    /\ \A j \in 2..Len(mine) : mine[j].sql # Begin
    /\ \A j \in 1..Len(mine) : mine[j].sql = Commit => j = Len(mine)
    /\ (Len(mine) > 0 /\ mine[Len(mine)].sql = Commit) =>
          Len(mine) = BatchSize(calls[c]) + 3

\* no begin or commit of another call lies between the begin of batch c and
\* a later statement of batch c
Uninterrupted(c) ==
    \A i, j, k \in 1..Len(sent) :
        (/\ i < j /\ j < k
         /\ sent[i].call = c /\ sent[i].sql = Begin
         /\ sent[k].call = c
         /\ sent[j].call # c) => sent[j].sql \notin {Begin, Commit}

\* C6 (as claimed): in every interleaving of calls the row statements of a
\* batch lie between its begin and its commit, with no begin or commit of
\* another call between them.
BatchIsolated ==
    \A c \in 1..Len(calls) :
        IsBatch(calls[c]) => (Bracketed(c) /\ Uninterrupted(c))

\* C6 (amended): in every interleaving the row statements of a batch reach
\* the client after that batch's begin and before its commit; no begin or
\* commit of another call arrives between them as long as no call was made
\* while another one was pending.
BatchBracketed ==
    \A c \in 1..Len(calls) :
        IsBatch(calls[c]) =>
            /\ Bracketed(c)
            /\ ~overlapped => Uninterrupted(c)

\* two batches ran to their commit one after the other
BatchWitness ==
    /\ ~overlapped
    /\ Len(calls) >= 2
    /\ \A c \in 1..2 :
          /\ IsBatch(calls[c]) /\ calls[c].result = "resolved"
          /\ Len(SentBy(c)) = BatchSize(calls[c]) + 3

=============================================================================
